---- MODULE Spec2Model ----
(***************************************************************************)
(* The metadata type decoder of src/comp/metadata/tydecode.rs as a state   *)
(* machine.  A byte is a one-character string; Ord gives its ASCII code.   *)
(* The decoder's call stack is explicit: one frame per active call of      *)
(* parse_ty, parse_mt, parse_ty_fn or parse_ty_or_bang, and one cursor     *)
(* (pstate) per parse_ty_data call and per backreference target under      *)
(* decode.  The sub-decoders that never call parse_ty are operators over   *)
(* a position of the buffer.                                               *)
(***************************************************************************)
EXTENDS Integers, Sequences, FiniteSets, TLC

\* ------------------------------------------------------------------ bounds
\* parse_ty_data calls made on one type context
MaxCalls == 2
\* cursors alive at once: the stack is exhausted when a backreference asks for more
MaxDepth == 4
\* the start offsets parse_ty_data is called with are 0 .. MaxPos
MaxPos == 1
\* the lengths parse_ty_data is called with are 1 .. MaxLen and the rest of the buffer
MaxLen == 2

\* ------------------------------------------------------------------- bytes
\* the ASCII code of a byte
OrdOf(c) ==
  CASE c = "!" -> 33    [] c = "#" -> 35    [] c = "&" -> 38
    [] c = "(" -> 40    [] c = ")" -> 41    [] c = "*" -> 42
    [] c = "0" -> 48    [] c = "1" -> 49    [] c = "2" -> 50
    [] c = "3" -> 51    [] c = "5" -> 53    [] c = "6" -> 54
    [] c = "9" -> 57    [] c = ":" -> 58    [] c = ";" -> 59
    [] c = "=" -> 61    [] c = "?" -> 63    [] c = "@" -> 64
    [] c = "A" -> 65    [] c = "B" -> 66    [] c = "C" -> 67
    [] c = "D" -> 68    [] c = "E" -> 69    [] c = "F" -> 70
    [] c = "I" -> 73    [] c = "L" -> 76    [] c = "M" -> 77
    [] c = "N" -> 78    [] c = "O" -> 79    [] c = "P" -> 80
    [] c = "Q" -> 81    [] c = "R" -> 82    [] c = "S" -> 83
    [] c = "V" -> 86    [] c = "W" -> 87    [] c = "X" -> 88
    [] c = "Y" -> 89    [] c = "[" -> 91    [] c = "]" -> 93
    [] c = "a" -> 97    [] c = "b" -> 98    [] c = "c" -> 99
    [] c = "d" -> 100    [] c = "e" -> 101    [] c = "f" -> 102
    [] c = "g" -> 103    [] c = "i" -> 105    [] c = "l" -> 108
    [] c = "m" -> 109    [] c = "n" -> 110    [] c = "p" -> 112
    [] c = "q" -> 113    [] c = "r" -> 114    [] c = "s" -> 115
    [] c = "t" -> 116    [] c = "u" -> 117    [] c = "w" -> 119
    [] c = "x" -> 120    [] c = "y" -> 121    [] c = "z" -> 122
    [] c = "|" -> 124

Bytes ==
  {"!", "#", "&", "(", ")", "*", "0", "1", "2", "3", "5", "6",
   "9", ":", ";", "=", "?", "@", "A", "B", "C", "D", "E", "F",
   "I", "L", "M", "N", "O", "P", "Q", "R", "S", "V", "W", "X",
   "Y", "[", "]", "a", "b", "c", "d", "e", "f", "g", "i", "l",
   "m", "n", "p", "q", "r", "s", "t", "u", "w", "x", "y", "z",
   "|"}

Ord == [c \in Bytes |-> OrdOf(c)]

\* data, rcache: the metadata buffer and the type context's backreference cache;
\* stack, cursors, ret: the decoder's call stack, its pstates, the value a call
\* just returned; status, result, err: how the parse_ty_data call stands.
\* Observers: ncalls (parse_ty_data calls), sdcalls (resolver calls), hits
\* (cache hits), completed (the first handle each backreference key returned).
VARIABLES data, rcache, stack, cursors, status, result, ret, err,
          ncalls, sdcalls, hits, completed

vars == <<data, rcache, stack, cursors, status, result, ret, err,
          ncalls, sdcalls, hits, completed>>

\* ------------------------------------------------------------- values
NoVal == [mk |-> "none"]

\* The resolver callback: a total function of the definition string.
sd(def) == [def_id |-> def]

\* Result of a sub-decoder run from a position: the position it leaves the
\* cursor on, its value, the resolver calls it made, and the failure if any.
Ok(pos, val, n) == [ok |-> TRUE, pos |-> pos, val |-> val, sd |-> n, err |-> ""]

Err(pos, e, n) == [ok |-> FALSE, pos |-> pos, val |-> NoVal, sd |-> n, err |-> e]

\* st.data.(st.pos) is bounds-checked: an index at or past the end fails.
InBuf(pos) == pos < Len(data)

peek(pos) == data[pos + 1]

\* ------------------------------------------------------- sub-decoders
RECURSIVE parse_ident_loop(_, _, _)
parse_ident_loop(pos, is_last, rslt) ==
  IF ~InBuf(pos) THEN Err(pos, "bounds", 0)
  ELSE IF peek(pos) \in is_last THEN Ok(pos, rslt, 0)
  ELSE parse_ident_loop(pos + 1, is_last, Append(rslt, peek(pos)))

parse_ident_(pos, is_last) == parse_ident_loop(pos, is_last, <<>>)

\* r's value handed on to F when r succeeded; r's failure otherwise, with the
\* n resolver calls made before it
Bind(r, n, F(_)) == IF r.ok THEN F(r) ELSE Err(r.pos, r.err, r.sd + n)

parse_def(pos) ==
  Bind(parse_ident_(pos, {"|"}), 0, LAMBDA r : Ok(r.pos + 1, sd(r.val), 1))

RECURSIVE parse_int_loop(_, _)
parse_int_loop(pos, n) ==
  IF ~InBuf(pos) THEN Err(pos, "bounds", 0)
  ELSE IF Ord[peek(pos)] < Ord["0"] \/ Ord[peek(pos)] > Ord["9"] THEN Ok(pos, n, 0)
  ELSE parse_int_loop(pos + 1, n * 10 + (Ord[peek(pos)] - Ord["0"]))

parse_int(pos) == parse_int_loop(pos, 0)

\* parse_hex reading the upper-case digits A-F as well
RECURSIVE parse_hex_loop_upper(_, _)
parse_hex_loop_upper(pos, n) ==
  IF ~InBuf(pos) THEN Err(pos, "bounds", 0)
  ELSE IF peek(pos) \in {"0", "1", "2", "3", "4", "5", "6", "7", "8", "9"}
       THEN parse_hex_loop_upper(pos + 1, n * 16 + (Ord[peek(pos)] - Ord["0"]))
       ELSE IF peek(pos) \in {"a", "b", "c", "d", "e", "f"}
            THEN parse_hex_loop_upper(pos + 1, n * 16 + 10 + Ord[peek(pos)] - Ord["a"])
            ELSE IF peek(pos) \in {"A", "B", "C", "D", "E", "F"}
                 THEN parse_hex_loop_upper(pos + 1, n * 16 + 10 + Ord[peek(pos)] - Ord["A"])
                 ELSE Ok(pos, n, 0)

RECURSIVE parse_hex_loop(_, _)
parse_hex_loop(pos, n) ==
  IF ~InBuf(pos) THEN Err(pos, "bounds", 0)
  ELSE IF (Ord[peek(pos)] < Ord["0"] \/ Ord[peek(pos)] > Ord["9"])
          /\ (Ord[peek(pos)] < Ord["a"] \/ Ord[peek(pos)] > Ord["f"])
       THEN Ok(pos, n, 0)
       ELSE IF Ord["0"] <= Ord[peek(pos)] /\ Ord[peek(pos)] <= Ord["9"]
            THEN parse_hex_loop(pos + 1, n * 16 + (Ord[peek(pos)] - Ord["0"]))
            ELSE parse_hex_loop(pos + 1, n * 16 + 10 + Ord[peek(pos)] - Ord["a"])

parse_hex(pos) == parse_hex_loop(pos, 0)

RECURSIVE parse_path_loop(_, _)
parse_path_loop(pos, idents) ==
  IF ~InBuf(pos) THEN Err(pos, "bounds", 0)
  ELSE IF peek(pos) = ":"
       THEN IF ~InBuf(pos + 1) THEN Err(pos + 1, "bounds", 0)
            ELSE parse_path_loop(pos + 2, idents)
       ELSE IF peek(pos) = "("
            THEN Ok(pos, [global |-> FALSE, idents |-> idents, types |-> <<>>], 0)
            ELSE Bind(parse_ident_(pos, {"(", ":"}), 0,
                      LAMBDA r : parse_path_loop(r.pos, Append(idents, r.val)))

parse_path(pos) ==
  Bind(parse_ident_(pos, {"(", ":"}), 0,
       LAMBDA r : parse_path_loop(r.pos, <<r.val>>))

carg_base == [carg |-> "base"]

carg_ident(x) == [carg |-> "ident", of |-> x]

parse_constr_arg(pos) ==
  IF ~InBuf(pos) THEN Err(pos, "bounds", 0)
  ELSE IF peek(pos) = "*" THEN Ok(pos + 1, carg_base, 0)
  ELSE IF Ord[peek(pos)] >= Ord["0"] /\ Ord[peek(pos)] <= Ord["9"]
       THEN Ok(pos + 1, carg_ident(Ord[peek(pos)] - 48), 0)
       ELSE Err(pos, "lit args", 0)

parse_ty_constr_arg(pos) ==
  IF ~InBuf(pos) THEN Err(pos, "bounds", 0)
  ELSE IF peek(pos) = "*" THEN Ok(pos + 1, carg_base, 0)
  ELSE Bind(parse_path(pos), 0, LAMBDA r : Ok(r.pos, carg_ident(r.val), 0))

\* pser is the argument parser parse_constr is instantiated with
arg_parser(pser, pos) ==
  IF pser = "parse_constr_arg" THEN parse_constr_arg(pos)
  ELSE parse_ty_constr_arg(pos)

\* parse_constr_args without its closing assertion: any byte ends the list
RECURSIVE parse_constr_args_unasserted(_, _, _)
parse_constr_args_unasserted(pos, pser, args) ==
  Bind(arg_parser(pser, pos), 0,
       LAMBDA a :
         IF ~InBuf(a.pos) THEN Err(a.pos, "bounds", 0)
         ELSE IF peek(a.pos) = ";"
              THEN parse_constr_args_unasserted(a.pos + 1, pser, Append(args, a.val))
              ELSE Ok(a.pos + 1, Append(args, a.val), 0))

\* do { an_arg = pser(st, sd); args += [an_arg]; ignore = next(st) }
\* while ignore == ';'   assert (ignore == ')')
RECURSIVE parse_constr_args(_, _, _)
parse_constr_args(pos, pser, args) ==
  Bind(arg_parser(pser, pos), 0,
       LAMBDA a :
         IF ~InBuf(a.pos) THEN Err(a.pos, "bounds", 0)
         ELSE IF peek(a.pos) = ";"
              THEN parse_constr_args(a.pos + 1, pser, Append(args, a.val))
              ELSE IF peek(a.pos) = ")" THEN Ok(a.pos + 1, Append(args, a.val), 0)
              ELSE Err(a.pos + 1, "assert", 0))

parse_constr_tail(pth, def, pser) ==
  Bind(parse_constr_args(def.pos, pser, <<>>), 1,
       LAMBDA al :
         Ok(al.pos, [path |-> pth.val, args |-> al.val, id |-> def.val], 1))

parse_constr_def(pth, pser) ==
  IF ~InBuf(pth.pos) THEN Err(pth.pos, "bounds", 0)
  ELSE IF peek(pth.pos) # "(" THEN Err(pth.pos + 1, "assert", 0)
  ELSE Bind(parse_def(pth.pos + 1), 0,
            LAMBDA def : parse_constr_tail(pth, def, pser))

parse_constr(pos, pser) ==
  Bind(parse_path(pos), 0, LAMBDA pth : parse_constr_def(pth, pser))

\* do { next(st); one = parse_constr(...); rslt += [one] } while peek(st) == ';'
RECURSIVE parse_constrs_loop(_, _, _, _)
parse_constrs_loop(pos, pser, rslt, n) ==
  Bind(parse_constr(pos + 1, pser), n,
       LAMBDA one :
         IF ~InBuf(one.pos) THEN Err(one.pos, "bounds", n + 1)
         ELSE IF peek(one.pos) = ";"
              THEN parse_constrs_loop(one.pos, pser, Append(rslt, one.val), n + 1)
              ELSE Ok(one.pos, Append(rslt, one.val), n + 1))

parse_constrs(pos) ==
  IF ~InBuf(pos) THEN Err(pos, "bounds", 0)
  ELSE IF peek(pos) = ":" THEN parse_constrs_loop(pos, "parse_constr_arg", <<>>, 0)
  ELSE Ok(pos, <<>>, 0)

parse_ty_constrs(pos) ==
  IF ~InBuf(pos) THEN Err(pos, "bounds", 0)
  ELSE IF peek(pos) = ":" THEN parse_constrs_loop(pos, "parse_ty_constr_arg", <<>>, 0)
  ELSE Ok(pos, <<>>, 0)

\* ------------------------------------------------- type constructors
\* The decoder builds its result with ty::mk_*(st.tcx, ...); a handle is
\* modelled by the constructor application that produced it (the type
\* context interns structurally equal types to one handle).
mk_mach(tm) == [mk |-> "mach", tm |-> tm]

mk_prim(tag) ==
  CASE tag = "n" -> [mk |-> "nil"]
    [] tag = "z" -> [mk |-> "bot"]
    [] tag = "b" -> [mk |-> "bool"]
    [] tag = "i" -> [mk |-> "int"]
    [] tag = "u" -> [mk |-> "uint"]
    [] tag = "l" -> [mk |-> "float"]
    [] tag = "c" -> [mk |-> "char"]
    [] tag = "s" -> [mk |-> "str"]
    [] tag = "S" -> [mk |-> "istr"]
    [] tag = "a" -> [mk |-> "task"]
    [] tag = "Y" -> [mk |-> "type"]

PrimTags == {"n", "z", "b", "i", "u", "l", "c", "s", "S", "a", "Y"}

\* mach_ty with the signed sub-tags folded onto the unsigned widths
mach_ty_unsigned(c) ==
  CASE c \in {"b", "B"} -> "ty_u8"
    [] c \in {"w", "W"} -> "ty_u16"
    [] c \in {"l", "L"} -> "ty_u32"
    [] c \in {"d", "D"} -> "ty_u64"
    [] c = "f" -> "ty_f32"
    [] c = "F" -> "ty_f64"

mach_ty(c) ==
  CASE c = "b" -> "ty_u8"
    [] c = "w" -> "ty_u16"
    [] c = "l" -> "ty_u32"
    [] c = "d" -> "ty_u64"
    [] c = "B" -> "ty_i8"
    [] c = "W" -> "ty_i16"
    [] c = "L" -> "ty_i32"
    [] c = "D" -> "ty_i64"
    [] c = "f" -> "ty_f32"
    [] c = "F" -> "ty_f64"

MachTags == {"b", "w", "l", "d", "B", "W", "L", "D", "f", "F"}

kind_of(c) ==
  CASE c = "u" -> "kind_unique"
    [] c = "s" -> "kind_shared"
    [] c = "p" -> "kind_pinned"

KindTags == {"u", "s", "p"}

native_abi(c) ==
  CASE c = "r" -> "native_abi_rust"
    [] c = "i" -> "native_abi_rust_intrinsic"
    [] c = "c" -> "native_abi_cdecl"
    [] c = "l" -> "native_abi_llvm"
    [] c = "s" -> "native_abi_x86stdcall"

AbiTags == {"r", "i", "c", "l", "s"}

proto_of(c) ==
  CASE c = "F" -> "proto_fn"
    [] c = "W" -> "proto_iter"
    [] c = "B" -> "proto_block"

mk_ptrlike(tag, mt) ==
  CASE tag = "@" -> [mk |-> "box", mt |-> mt]
    [] tag = "*" -> [mk |-> "ptr", mt |-> mt]
    [] tag = "V" -> [mk |-> "vec", mt |-> mt]
    [] tag = "I" -> [mk |-> "ivec", mt |-> mt]

mk_portlike(tag, t) ==
  CASE tag = "P" -> [mk |-> "port", ty |-> t]
    [] tag = "C" -> [mk |-> "chan", ty |-> t]

mk_tag(def, params) == [mk |-> "tag", def |-> def, params |-> params]

mk_param(n, k) == [mk |-> "param", n |-> n, k |-> k]

mk_rec(fields) == [mk |-> "rec", fields |-> fields]

mk_fn(proto, args, t, cf, cs) ==
  [mk |-> "fn", proto |-> proto, args |-> args, ty |-> t, cf |-> cf, cs |-> cs]

mk_native_fn(abi, args, t) ==
  [mk |-> "native_fn", abi |-> abi, args |-> args, ty |-> t]

mk_obj(methods) == [mk |-> "obj", methods |-> methods]

mk_res(def, inner, params) ==
  [mk |-> "res", def |-> def, inner |-> inner, params |-> params]

mk_var(n) == [mk |-> "var", n |-> n]

mk_native(def) == [mk |-> "native", def |-> def]

mk_constr(t, tcs) == [mk |-> "constr", ty |-> t, tcs |-> tcs]

KnownTags ==
  PrimTags \cup {"M", "t", "p", "@", "*", "V", "I", "P", "C", "R", "F", "W",
                 "B", "N", "O", "r", "X", "E", "#", "A"}

\* ------------------------------------------------------ the call stack
Frame(fn, pc, st, acc, a, b) ==
  [fn |-> fn, pc |-> pc, st |-> st, acc |-> acc, a |-> a, b |-> b]

NewFrame(fn, st) == Frame(fn, "entry", st, <<>>, NoVal, NoVal)

Top == stack[Len(stack)]

\* the pstate the running call was given
Cur == cursors[Top.st]

At(fn, pc) ==
  status = "running" /\ stack # <<>> /\ Top.fn = fn /\ Top.pc = pc

\* st.pos = p
SetPos(p) == [cursors EXCEPT ![Top.st].pos = p]

\* the running call returns v to its caller (parse_ty_data's caller at the bottom)
Return(v, cs, n) ==
  /\ cursors' = cs
  /\ sdcalls' = sdcalls + n
  /\ err' = err
  /\ IF Len(stack) = 1
     THEN /\ stack' = <<>>
          /\ status' = "done"
          /\ result' = v
          /\ ret' = NoVal
     ELSE /\ stack' = SubSeq(stack, 1, Len(stack) - 1)
          /\ ret' = v
          /\ UNCHANGED <<status, result>>

\* fail: the task unwinds, no frame survives and nothing is returned
Fail(e, cs, n) ==
  /\ cursors' = cs
  /\ sdcalls' = sdcalls + n
  /\ err' = e
  /\ stack' = <<>>
  /\ status' = "fault"
  /\ result' = NoVal
  /\ ret' = NoVal

\* the running call, its frame now self, calls callee
Call(self, callee, cs, n) ==
  /\ cursors' = cs
  /\ sdcalls' = sdcalls + n
  /\ stack' = Append([stack EXCEPT ![Len(stack)] = self], callee)
  /\ ret' = NoVal
  /\ UNCHANGED <<status, result, err>>

\* the fields of the running frame, changed
Self(pc, acc, a, b) == Frame(Top.fn, pc, Top.st, acc, a, b)

\* ---------------------------------------------------------- operations
parse_ty_data(crate_num, pos, len) ==
  /\ status \in {"idle", "done"}
  /\ ncalls < MaxCalls
  /\ cursors' = <<[crate |-> crate_num, pos |-> pos, len |-> len, start |-> pos]>>
  /\ stack' = <<NewFrame("parse_ty", 1)>>
  /\ status' = "running"
  /\ result' = NoVal
  /\ ret' = NoVal
  /\ err' = ""
  /\ ncalls' = ncalls + 1
  /\ UNCHANGED <<data, rcache, sdcalls, hits, completed>>

\* next(st) at the head of parse_ty with the cursor at the end of the buffer
parse_ty_eof ==
  /\ At("parse_ty", "entry")
  /\ ~InBuf(Cur.pos)
  /\ Fail("bounds", cursors, 0)
  /\ UNCHANGED <<data, ncalls, rcache, hits, completed>>

parse_ty_prim ==
  /\ At("parse_ty", "entry")
  /\ InBuf(Cur.pos)
  /\ peek(Cur.pos) \in PrimTags
  /\ Return(mk_prim(peek(Cur.pos)), SetPos(Cur.pos + 1), 0)
  /\ UNCHANGED <<data, ncalls, rcache, hits, completed>>

parse_ty_M ==
  /\ At("parse_ty", "entry")
  /\ InBuf(Cur.pos)
  /\ peek(Cur.pos) = "M"
  /\ IF ~InBuf(Cur.pos + 1) THEN Fail("bounds", SetPos(Cur.pos + 1), 0)
     ELSE IF peek(Cur.pos + 1) \in MachTags
          THEN Return(mk_mach(mach_ty(peek(Cur.pos + 1))), SetPos(Cur.pos + 2), 0)
          ELSE Fail("match", SetPos(Cur.pos + 2), 0)
  /\ UNCHANGED <<data, ncalls, rcache, hits, completed>>

\* the default arm answering nil for an unknown tag instead of failing
parse_ty_default_fallback ==
  /\ At("parse_ty", "entry")
  /\ InBuf(Cur.pos)
  /\ peek(Cur.pos) \notin KnownTags
  /\ Return(mk_prim("n"), SetPos(Cur.pos + 1), 0)
  /\ UNCHANGED <<data, ncalls, rcache, hits, completed>>

parse_ty_default ==
  /\ At("parse_ty", "entry")
  /\ InBuf(Cur.pos)
  /\ peek(Cur.pos) \notin KnownTags
  /\ Fail("unexpected char in type string", SetPos(Cur.pos + 1), 0)
  /\ UNCHANGED <<data, ncalls, rcache, hits, completed>>

\* parse_mt taking '?' for 'm'
parse_mt_no_maybe ==
  /\ UNCHANGED <<data, ncalls, rcache, hits, completed>>
  /\ \/ /\ At("parse_mt", "entry")
        /\ IF ~InBuf(Cur.pos) THEN Fail("bounds", cursors, 0)
           ELSE IF peek(Cur.pos) \in {"m", "?"}
                THEN Call(Self("mt_ret", <<>>, "mut", NoVal),
                          NewFrame("parse_ty", Top.st), SetPos(Cur.pos + 1), 0)
                ELSE Call(Self("mt_ret", <<>>, "imm", NoVal),
                          NewFrame("parse_ty", Top.st), cursors, 0)
     \/ /\ At("parse_mt", "mt_ret")
        /\ Return([ty |-> ret, mut |-> Top.a], cursors, 0)

parse_mt ==
  /\ UNCHANGED <<data, ncalls, rcache, hits, completed>>
  /\ \/ /\ At("parse_mt", "entry")
        /\ IF ~InBuf(Cur.pos) THEN Fail("bounds", cursors, 0)
           ELSE IF peek(Cur.pos) = "m"
                THEN Call(Self("mt_ret", <<>>, "mut", NoVal),
                          NewFrame("parse_ty", Top.st), SetPos(Cur.pos + 1), 0)
                ELSE IF peek(Cur.pos) = "?"
                     THEN Call(Self("mt_ret", <<>>, "maybe_mut", NoVal),
                               NewFrame("parse_ty", Top.st), SetPos(Cur.pos + 1), 0)
                     ELSE Call(Self("mt_ret", <<>>, "imm", NoVal),
                               NewFrame("parse_ty", Top.st), cursors, 0)
     \/ /\ At("parse_mt", "mt_ret")
        /\ Return([ty |-> ret, mut |-> Top.a], cursors, 0)

\* '@', '*', 'V', 'I': one mutability-qualified sub-type
parse_ty_box ==
  /\ UNCHANGED <<data, ncalls, rcache, hits, completed>>
  /\ \/ /\ At("parse_ty", "entry")
        /\ InBuf(Cur.pos)
        /\ peek(Cur.pos) \in {"@", "*", "V", "I"}
        /\ Call(Self("box_ret", <<>>, peek(Cur.pos), NoVal),
                NewFrame("parse_mt", Top.st), SetPos(Cur.pos + 1), 0)
     \/ /\ At("parse_ty", "box_ret")
        /\ Return(mk_ptrlike(Top.a, ret), cursors, 0)

\* 'P', 'C': one sub-type
parse_ty_port ==
  /\ UNCHANGED <<data, ncalls, rcache, hits, completed>>
  /\ \/ /\ At("parse_ty", "entry")
        /\ InBuf(Cur.pos)
        /\ peek(Cur.pos) \in {"P", "C"}
        /\ Call(Self("port_ret", <<>>, peek(Cur.pos), NoVal),
                NewFrame("parse_ty", Top.st), SetPos(Cur.pos + 1), 0)
     \/ /\ At("parse_ty", "port_ret")
        /\ Return(mk_portlike(Top.a, ret), cursors, 0)

\* while peek(st) != ']' { params += [parse_ty(st, sd)]; }  st.pos += 1; ret done
TypeListLoop(p, self, done, n) ==
  IF ~InBuf(p) THEN Fail("bounds", SetPos(p), n)
  ELSE IF peek(p) # "]"
       THEN Call(self, NewFrame("parse_ty", Top.st), SetPos(p), n)
       ELSE Return(done, SetPos(p + 1), n)

\* 't' '[' def '|' type* ']'
parse_ty_t ==
  /\ UNCHANGED <<data, ncalls, rcache, hits, completed>>
  /\ \/ /\ At("parse_ty", "entry")
        /\ InBuf(Cur.pos)
        /\ peek(Cur.pos) = "t"
        /\ IF ~InBuf(Cur.pos + 1) THEN Fail("bounds", SetPos(Cur.pos + 1), 0)
           ELSE IF peek(Cur.pos + 1) # "[" THEN Fail("assert", SetPos(Cur.pos + 2), 0)
           ELSE LET def == parse_def(Cur.pos + 2)
                IN  IF ~def.ok THEN Fail(def.err, SetPos(def.pos), 0)
                    ELSE TypeListLoop(def.pos, Self("t_params", <<>>, def.val, NoVal),
                                      mk_tag(def.val, <<>>), 1)
     \/ /\ At("parse_ty", "t_params")
        /\ LET params == Append(Top.acc, ret)
           IN  TypeListLoop(Cur.pos, Self("t_params", params, Top.a, NoVal),
                            mk_tag(Top.a, params), 0)

\* 'p' kind index
parse_ty_p ==
  /\ UNCHANGED <<data, ncalls, rcache, hits, completed>>
  /\ At("parse_ty", "entry")
  /\ InBuf(Cur.pos)
  /\ peek(Cur.pos) = "p"
  /\ IF ~InBuf(Cur.pos + 1) THEN Fail("bounds", SetPos(Cur.pos + 1), 0)
     ELSE IF peek(Cur.pos + 1) \notin KindTags
          THEN Fail("unexpected char in encoded type param", SetPos(Cur.pos + 2), 0)
          ELSE LET n == parse_int(Cur.pos + 2)
               IN  IF ~n.ok THEN Fail(n.err, SetPos(n.pos), 0)
                   ELSE Return(mk_param(n.val, kind_of(peek(Cur.pos + 1))),
                               SetPos(n.pos), 0)

\* the record loop without the st.pos += 1 that skips the '=' after a name
RecLoop_keeps_eq(p, fields) ==
  IF ~InBuf(p) THEN Fail("bounds", SetPos(p), 0)
  ELSE IF peek(p) # "]"
       THEN LET name == parse_ident_(p, {"="})
            IN  IF ~name.ok THEN Fail(name.err, SetPos(name.pos), 0)
                ELSE Call(Self("R_ret", fields, name.val, NoVal),
                          NewFrame("parse_mt", Top.st), SetPos(name.pos), 0)
       ELSE Return(mk_rec(fields), SetPos(p + 1), 0)

\* while peek(st) != ']' { name until '='; st.pos += 1; fields += [parse_mt] }
RecLoop(p, fields) ==
  IF ~InBuf(p) THEN Fail("bounds", SetPos(p), 0)
  ELSE IF peek(p) # "]"
       THEN LET name == parse_ident_(p, {"="})
            IN  IF ~name.ok THEN Fail(name.err, SetPos(name.pos), 0)
                ELSE Call(Self("R_ret", fields, name.val, NoVal),
                          NewFrame("parse_mt", Top.st), SetPos(name.pos + 1), 0)
       ELSE Return(mk_rec(fields), SetPos(p + 1), 0)

\* 'R' '[' (name '=' mt)* ']'
parse_ty_R ==
  /\ UNCHANGED <<data, ncalls, rcache, hits, completed>>
  /\ \/ /\ At("parse_ty", "entry")
        /\ InBuf(Cur.pos)
        /\ peek(Cur.pos) = "R"
        /\ IF ~InBuf(Cur.pos + 1) THEN Fail("bounds", SetPos(Cur.pos + 1), 0)
           ELSE IF peek(Cur.pos + 1) # "[" THEN Fail("assert", SetPos(Cur.pos + 2), 0)
           ELSE RecLoop(Cur.pos + 2, <<>>)
     \/ /\ At("parse_ty", "R_ret")
        /\ RecLoop(Cur.pos, Append(Top.acc, [ident |-> Top.a, mt |-> ret]))

\* 'F', 'W', 'B': a function signature
parse_ty_F ==
  /\ UNCHANGED <<data, ncalls, rcache, hits, completed>>
  /\ \/ /\ At("parse_ty", "entry")
        /\ InBuf(Cur.pos)
        /\ peek(Cur.pos) \in {"F", "W", "B"}
        /\ Call(Self("fn_ret", <<>>, proto_of(peek(Cur.pos)), NoVal),
                NewFrame("parse_ty_fn", Top.st), SetPos(Cur.pos + 1), 0)
     \/ /\ At("parse_ty", "fn_ret")
        /\ Return(mk_fn(Top.a, ret.args, ret.ty, ret.cf, ret.cs), cursors, 0)

\* 'N' abi, then a function signature
parse_ty_N ==
  /\ UNCHANGED <<data, ncalls, rcache, hits, completed>>
  /\ \/ /\ At("parse_ty", "entry")
        /\ InBuf(Cur.pos)
        /\ peek(Cur.pos) = "N"
        /\ IF ~InBuf(Cur.pos + 1) THEN Fail("bounds", SetPos(Cur.pos + 1), 0)
           ELSE IF peek(Cur.pos + 1) \notin AbiTags
                THEN Fail("match", SetPos(Cur.pos + 2), 0)
                ELSE Call(Self("native_ret", <<>>, native_abi(peek(Cur.pos + 1)), NoVal),
                          NewFrame("parse_ty_fn", Top.st), SetPos(Cur.pos + 2), 0)
     \/ /\ At("parse_ty", "native_ret")
        /\ Return(mk_native_fn(Top.a, ret.args, ret.ty), cursors, 0)

\* while peek(st) != ']' { proto; name until '['; func = parse_ty_fn; methods += }
ObjLoop(p, methods) ==
  IF ~InBuf(p) THEN Fail("bounds", SetPos(p), 0)
  ELSE IF peek(p) # "]"
       THEN IF peek(p) \notin {"W", "F"} THEN Fail("match", SetPos(p + 1), 0)
            ELSE LET name == parse_ident_(p + 1, {"["})
                 IN  IF ~name.ok THEN Fail(name.err, SetPos(name.pos), 0)
                     ELSE Call(Self("O_ret", methods, proto_of(peek(p)), name.val),
                               NewFrame("parse_ty_fn", Top.st), SetPos(name.pos), 0)
       ELSE Return(mk_obj(methods), SetPos(p + 1), 0)

\* 'O' '[' (proto name signature)* ']'
parse_ty_O ==
  /\ UNCHANGED <<data, ncalls, rcache, hits, completed>>
  /\ \/ /\ At("parse_ty", "entry")
        /\ InBuf(Cur.pos)
        /\ peek(Cur.pos) = "O"
        /\ IF ~InBuf(Cur.pos + 1) THEN Fail("bounds", SetPos(Cur.pos + 1), 0)
           ELSE IF peek(Cur.pos + 1) # "[" THEN Fail("assert", SetPos(Cur.pos + 2), 0)
           ELSE ObjLoop(Cur.pos + 2, <<>>)
     \/ /\ At("parse_ty", "O_ret")
        /\ ObjLoop(Cur.pos,
                   Append(Top.acc,
                          [proto |-> Top.a, ident |-> Top.b, inputs |-> ret.args,
                           output |-> ret.ty, cf |-> ret.cf, constrs |-> ret.cs]))

\* 'r' '[' def '|' inner type* ']'
parse_ty_r ==
  /\ UNCHANGED <<data, ncalls, rcache, hits, completed>>
  /\ \/ /\ At("parse_ty", "entry")
        /\ InBuf(Cur.pos)
        /\ peek(Cur.pos) = "r"
        /\ IF ~InBuf(Cur.pos + 1) THEN Fail("bounds", SetPos(Cur.pos + 1), 0)
           ELSE IF peek(Cur.pos + 1) # "[" THEN Fail("assert", SetPos(Cur.pos + 2), 0)
           ELSE LET def == parse_def(Cur.pos + 2)
                IN  IF ~def.ok THEN Fail(def.err, SetPos(def.pos), 0)
                    ELSE Call(Self("r_inner", <<>>, def.val, NoVal),
                              NewFrame("parse_ty", Top.st), SetPos(def.pos), 1)
     \/ /\ At("parse_ty", "r_inner")
        /\ TypeListLoop(Cur.pos, Self("r_params", <<>>, Top.a, ret),
                        mk_res(Top.a, ret, <<>>), 0)
     \/ /\ At("parse_ty", "r_params")
        /\ LET params == Append(Top.acc, ret)
           IN  TypeListLoop(Cur.pos, Self("r_params", params, Top.a, Top.b),
                            mk_res(Top.a, Top.b, params), 0)

\* 'X' id
parse_ty_X ==
  /\ UNCHANGED <<data, ncalls, rcache, hits, completed>>
  /\ At("parse_ty", "entry")
  /\ InBuf(Cur.pos)
  /\ peek(Cur.pos) = "X"
  /\ LET n == parse_int(Cur.pos + 1)
     IN  IF ~n.ok THEN Fail(n.err, SetPos(n.pos), 0)
         ELSE Return(mk_var(n.val), SetPos(n.pos), 0)

\* 'E' def '|'
parse_ty_E ==
  /\ UNCHANGED <<data, ncalls, rcache, hits, completed>>
  /\ At("parse_ty", "entry")
  /\ InBuf(Cur.pos)
  /\ peek(Cur.pos) = "E"
  /\ LET def == parse_def(Cur.pos + 1)
     IN  IF ~def.ok THEN Fail(def.err, SetPos(def.pos), 0)
         ELSE Return(mk_native(def.val), SetPos(def.pos), 1)

\* an insert that stores nothing
rcache_insert_dropped(key, tt) == rcache

\* an insert that empties the table before storing
rcache_insert_clobber(key, tt) == [k \in {key} |-> tt]

\* st.tcx.rcache.insert(key, tt)
rcache_insert(key, tt) ==
  [k \in DOMAIN rcache \cup {key} |-> IF k = key THEN tt ELSE rcache[k]]

\* the key a backreference of the running cursor is looked up and stored under
rcache_key(pos, len) == <<Cur.crate, pos, len>>

\* the first handle a backreference decode of key returned
Completed(key, tt) ==
  IF key \in DOMAIN completed THEN completed
  ELSE [k \in DOMAIN completed \cup {key} |-> IF k = key THEN tt ELSE completed[k]]

\* a nested cursor that starts where the current one stands
nested_pstate_here(pos, len) ==
  [crate |-> Cur.crate, pos |-> Cur.pos, len |-> len, start |-> Cur.pos]

\* @{pos: pos, len: len with *st}
nested_pstate(pos, len) ==
  [crate |-> Cur.crate, pos |-> pos, len |-> len, start |-> pos]

\* the '#' arm entering its key in the cache before the nested decode
parse_ty_backref_eager ==
  /\ UNCHANGED <<data, ncalls>>
  /\ \/ /\ At("parse_ty", "entry")
        /\ InBuf(Cur.pos)
        /\ peek(Cur.pos) = "#"
        /\ LET pos == parse_hex(Cur.pos + 1)
               len == parse_hex(pos.pos + 1)
           IN  IF ~pos.ok
               THEN Fail(pos.err, SetPos(pos.pos), 0) /\ UNCHANGED <<rcache, hits, completed>>
               ELSE IF peek(pos.pos) # ":"
               THEN Fail("assert", SetPos(pos.pos + 1), 0) /\ UNCHANGED <<rcache, hits, completed>>
               ELSE IF ~len.ok
               THEN Fail(len.err, SetPos(len.pos), 0) /\ UNCHANGED <<rcache, hits, completed>>
               ELSE IF peek(len.pos) # "#"
               THEN Fail("assert", SetPos(len.pos + 1), 0) /\ UNCHANGED <<rcache, hits, completed>>
               ELSE LET key == rcache_key(pos.val, len.val)
                    IN  IF key \in DOMAIN rcache
                        THEN /\ Return(rcache[key], SetPos(len.pos + 1), 0)
                             /\ completed' = Completed(key, rcache[key])
                             /\ hits' = hits + 1
                             /\ UNCHANGED rcache
                        ELSE IF Len(cursors) >= MaxDepth
                        THEN /\ Fail("stack exhausted", SetPos(len.pos + 1), 0)
                             /\ UNCHANGED <<rcache, hits, completed>>
                        ELSE /\ Call(Self("hash_ret", <<>>, key, NoVal),
                                     NewFrame("parse_ty", Len(cursors) + 1),
                                     Append(SetPos(len.pos + 1),
                                            nested_pstate(pos.val, len.val)),
                                     0)
                             /\ rcache' = rcache_insert(key, NoVal)
                             /\ UNCHANGED <<hits, completed>>
     \/ /\ At("parse_ty", "hash_ret")
        /\ rcache' = rcache_insert(Top.a, ret)
        /\ completed' = Completed(Top.a, ret)
        /\ hits' = hits
        /\ Return(ret, SubSeq(cursors, 1, Len(cursors) - 1), 0)

\* '#' hex ':' hex '#'
parse_ty_backref ==
  /\ UNCHANGED <<data, ncalls>>
  /\ \/ /\ At("parse_ty", "entry")
        /\ InBuf(Cur.pos)
        /\ peek(Cur.pos) = "#"
        /\ LET pos == parse_hex(Cur.pos + 1)
               len == parse_hex(pos.pos + 1)
           IN  IF ~pos.ok
               THEN Fail(pos.err, SetPos(pos.pos), 0) /\ UNCHANGED <<rcache, hits, completed>>
               ELSE IF peek(pos.pos) # ":"
               THEN Fail("assert", SetPos(pos.pos + 1), 0) /\ UNCHANGED <<rcache, hits, completed>>
               ELSE IF ~len.ok
               THEN Fail(len.err, SetPos(len.pos), 0) /\ UNCHANGED <<rcache, hits, completed>>
               ELSE IF peek(len.pos) # "#"
               THEN Fail("assert", SetPos(len.pos + 1), 0) /\ UNCHANGED <<rcache, hits, completed>>
               ELSE LET key == rcache_key(pos.val, len.val)
                    IN  IF key \in DOMAIN rcache
                        THEN /\ Return(rcache[key], SetPos(len.pos + 1), 0)
                             /\ completed' = Completed(key, rcache[key])
                             /\ hits' = hits + 1
                             /\ UNCHANGED rcache
                        ELSE IF Len(cursors) >= MaxDepth
                        THEN /\ Fail("stack exhausted", SetPos(len.pos + 1), 0)
                             /\ UNCHANGED <<rcache, hits, completed>>
                        ELSE /\ Call(Self("hash_ret", <<>>, key, NoVal),
                                     NewFrame("parse_ty", Len(cursors) + 1),
                                     Append(SetPos(len.pos + 1),
                                            nested_pstate(pos.val, len.val)),
                                     0)
                             /\ UNCHANGED <<rcache, hits, completed>>
     \/ /\ At("parse_ty", "hash_ret")
        /\ rcache' = rcache_insert(Top.a, ret)
        /\ completed' = Completed(Top.a, ret)
        /\ hits' = hits
        /\ Return(ret, SubSeq(cursors, 1, Len(cursors) - 1), 0)

\* 'A' '[' type constraints ']'
parse_ty_A ==
  /\ UNCHANGED <<data, ncalls, rcache, hits, completed>>
  /\ \/ /\ At("parse_ty", "entry")
        /\ InBuf(Cur.pos)
        /\ peek(Cur.pos) = "A"
        /\ IF ~InBuf(Cur.pos + 1) THEN Fail("bounds", SetPos(Cur.pos + 1), 0)
           ELSE IF peek(Cur.pos + 1) # "[" THEN Fail("assert", SetPos(Cur.pos + 2), 0)
           ELSE Call(Self("A_ret", <<>>, NoVal, NoVal),
                     NewFrame("parse_ty", Top.st), SetPos(Cur.pos + 2), 0)
     \/ /\ At("parse_ty", "A_ret")
        /\ LET tcs == parse_ty_constrs(Cur.pos)
           IN  IF ~tcs.ok THEN Fail(tcs.err, SetPos(tcs.pos), tcs.sd)
               ELSE IF ~InBuf(tcs.pos) THEN Fail("bounds", SetPos(tcs.pos), tcs.sd)
               ELSE IF peek(tcs.pos) # "]"
                    THEN Fail("assert", SetPos(tcs.pos + 1), tcs.sd)
                    ELSE Return(mk_constr(ret, tcs.val), SetPos(tcs.pos + 1), tcs.sd)

mo_val == [mode |-> "mo_val"]

\* an alias mode that forgets the 'm'
mo_alias_readonly(m) == [mode |-> "mo_alias", mut |-> FALSE]

mo_alias(m) == [mode |-> "mo_alias", mut |-> m]

a_bang == [tob |-> "a_bang"]

a_ty(t) == [tob |-> "a_ty", ty |-> t]

\* while peek(st) != ']' { mode; inputs += [{mode, parse_ty}] }  then the tail
FnLoop(p, inputs) ==
  IF ~InBuf(p) THEN Fail("bounds", SetPos(p), 0)
  ELSE IF peek(p) # "]"
       THEN IF peek(p) = "&"
            THEN IF ~InBuf(p + 1) THEN Fail("bounds", SetPos(p + 1), 0)
                 ELSE IF peek(p + 1) = "m"
                      THEN Call(Self("arg_ret", inputs, mo_alias(TRUE), NoVal),
                                NewFrame("parse_ty", Top.st), SetPos(p + 2), 0)
                      ELSE Call(Self("arg_ret", inputs, mo_alias(FALSE), NoVal),
                                NewFrame("parse_ty", Top.st), SetPos(p + 1), 0)
            ELSE Call(Self("arg_ret", inputs, mo_val, NoVal),
                      NewFrame("parse_ty", Top.st), SetPos(p), 0)
       ELSE LET cs == parse_constrs(p + 1)
            IN  IF ~cs.ok THEN Fail(cs.err, SetPos(cs.pos), cs.sd)
                ELSE Call(Self("tob_ret", inputs, cs.val, NoVal),
                          NewFrame("parse_ty_or_bang", Top.st), SetPos(cs.pos), cs.sd)

parse_ty_fn ==
  /\ UNCHANGED <<data, ncalls, rcache, hits, completed>>
  /\ \/ /\ At("parse_ty_fn", "entry")
        /\ IF ~InBuf(Cur.pos) THEN Fail("bounds", cursors, 0)
           ELSE IF peek(Cur.pos) # "[" THEN Fail("assert", SetPos(Cur.pos + 1), 0)
           ELSE FnLoop(Cur.pos + 1, <<>>)
     \/ /\ At("parse_ty_fn", "arg_ret")
        /\ FnLoop(Cur.pos, Append(Top.acc, [mode |-> Top.a, ty |-> ret]))
     \/ /\ At("parse_ty_fn", "tob_ret")
        /\ IF ret.tob = "a_bang"
           THEN Return([args |-> Top.acc, ty |-> mk_prim("z"), cf |-> "noreturn",
                        cs |-> Top.a], cursors, 0)
           ELSE Return([args |-> Top.acc, ty |-> ret.ty, cf |-> "return",
                        cs |-> Top.a], cursors, 0)

parse_ty_or_bang ==
  /\ UNCHANGED <<data, ncalls, rcache, hits, completed>>
  /\ \/ /\ At("parse_ty_or_bang", "entry")
        /\ IF ~InBuf(Cur.pos) THEN Fail("bounds", cursors, 0)
           ELSE IF peek(Cur.pos) = "!"
                THEN Return(a_bang, SetPos(Cur.pos + 1), 0)
                ELSE Call(Self("ty_ret", <<>>, NoVal, NoVal),
                          NewFrame("parse_ty", Top.st), cursors, 0)
     \/ /\ At("parse_ty_or_bang", "ty_ret")
        /\ Return(a_ty(ret), cursors, 0)

\* ---------------------------------------------------------------- inputs
\* Encodings the decoder is run on, written byte by byte: the type forms of
\* the grammar, well formed and not, and backreferences (shared, chained,
\* cyclic, out of range).
Encodings ==
  {
    <<"R", "[", "x", "=", "i", "y", "=", "?", "b", "]">>,
    <<"R", "[", "x", "=", "i", ";", "y", "=", "?", "b", ";", "]">>,
    <<"R", "[", "]">>,
    <<"F", "[", "i", "]", "n">>,
    <<"F", "[", "&", "i", "&", "m", "b", "i", "]", "!">>,
    <<"F", "[", "i", "]", ":", "p", "(", "d", "|", "0", ";", "*", ")", "n">>,
    <<"W", "[", "]", "i">>,
    <<"B", "[", "]", ":", "p", "(", "d", "|", "0", ")", ";", "q", "(", "e", "|", "*", ")", "b">>,
    <<"F", "[", "i", "]">>,
    <<"A", "[", "i", ":", "p", "(", "d", "|", "*", ")", "]">>,
    <<"A", "[", "i", ":", "p", "(", "d", "|", "q", ")", "]">>,
    <<"A", "[", "i", ":", "p", "(", "d", "|", "q", ")", "]", "(">>,
    <<"A", "[", "i", ":", "a", ":", ":", "b", "(", "d", "|", "*", ";", "*", ")", "]">>,
    <<"A", "[", "i", "]">>,
    <<"t", "[", "d", "|", "i", "b", "]">>,
    <<"t", "[", "d", "|", "]">>,
    <<"r", "[", "d", "|", "i", "b", "]">>,
    <<"r", "[", "d", "|", "i", "]">>,
    <<"E", "d", "|">>,
    <<"X", "1", "2", "i">>,
    <<"X">>,
    <<"@", "m", "i">>,
    <<"V", "?", "b">>,
    <<"*", "i">>,
    <<"I", "i">>,
    <<"P", "i">>,
    <<"C", "b">>,
    <<"p", "u", "3">>,
    <<"O", "[", "F", "f", "[", "i", "]", "n", "W", "g", "[", "]", "b", "]">>,
    <<"O", "[", "]">>,
    <<"N", "c", "[", "i", "]", "n">>,
    <<"N", "c", "[", "i", "]", ":", "p", "(", "d", "|", "0", ")", "n">>,
    <<"i", "#", "0", ":", "1", "#">>,
    <<"t", "[", "d", "|", "#", "f", ":", "1", "#", "#", "f", ":", "1", "#", "]", "i">>,
    <<"#", "5", ":", "5", "#", "t", "[", "d", "|", "]">>,
    <<"#", "0", ":", "5", "#">>,
    <<"#", "5", ":", "5", "#", "#", "0", ":", "5", "#">>,
    <<"@", "#", "6", ":", "5", "#", "#", "b", ":", "1", "#", "i">>,
    <<"#", "9", ":", "1", "#">>,
    <<"i", "#", "0", ":", "9", "#">>,
    <<"Q", "#", "0", ":", "1", "#">>,
    <<"#", "5", ":", "1", "#", "@", "i">>,
    <<"i", "#", "0", ":", "6", "#">>,
    <<"#", "A", ":", "1", "#">>,
    <<"F", "[", "]", ":", "(", "d", "|", "*", ")", "n">>,
    <<"F", "[", "]", ":", "a", ":", "b", "(", "d", "|", "*", ")", "n">>,
    <<"F", "[", "]", ":", "a", ":", ":", "b", ":", ":", "c", "(", "d", "|", "*", ")", "n">>,
    <<"X", "1", "2">>,
    <<"i", "#", ":", "1", "#">>,
    <<"i", "#", "0", ":", "#">>,
    <<"t", "[", "d", "|", "#", "b", ":", "1", "#", "Q", "]", "i">>,
    <<"X", "i">>,
    <<"p", "s", "i">>
  }

\* Every byte at a dispatch position, after a tag that takes a sub-tag, and
\* in the place of each delimiter the grammar expects.
Probes ==
  UNION { { <<c>>,
            <<"M", c>>,
            <<"p", c, "3", "]">>,
            <<"N", c, "[", "]", "n">>,
            <<"O", "[", c, "f", "[", "]", "n", "]">>,
            <<"t", c, "d", "|", "]">>,
            <<"R", c, "]">>,
            <<"O", c, "]">>,
            <<"r", c, "d", "|", "i", "]">>,
            <<"A", c, "i", "]">>,
            <<"F", c, "]", "n">>,
            <<"i", "#", "0", c, "1", "#">>,
            <<"i", "#", "0", ":", "1", c>>,
            <<"F", "[", "]", ":", "p", "(", "d", "|", "0", c, "n">>,
            <<"A", "[", "i", ":", "p", "(", "d", "|", "*", ")", c>> } : c \in Bytes }

Buffers == Encodings \cup Probes

\* compilation units a decode is asked for
Crates == {0, 1}

\* the lengths parse_ty_data is called with at pos: a short one or the rest
Lens(pos) == {l \in 1..(Len(data) - pos) : l <= MaxLen \/ l = Len(data) - pos}

EmptyMap == [k \in {} |-> NoVal]

Init ==
  /\ data \in Buffers
  /\ rcache = EmptyMap
  /\ completed = EmptyMap
  /\ stack = <<>>
  /\ cursors = <<>>
  /\ status = "idle"
  /\ result = NoVal
  /\ ret = NoVal
  /\ err = ""
  /\ ncalls = 0
  /\ sdcalls = 0
  /\ hits = 0

Next ==
  \/ \E crate_num \in Crates, pos \in 0..MaxPos :
       \E len \in Lens(pos) : parse_ty_data(crate_num, pos, len)
  \/ parse_ty_eof
  \/ parse_ty_prim
  \/ parse_ty_M
  \/ parse_ty_t
  \/ parse_ty_p
  \/ parse_ty_box
  \/ parse_ty_port
  \/ parse_ty_R
  \/ parse_ty_F
  \/ parse_ty_N
  \/ parse_ty_O
  \/ parse_ty_r
  \/ parse_ty_X
  \/ parse_ty_E
  \/ parse_ty_backref
  \/ parse_ty_A
  \/ parse_ty_default
  \/ parse_mt
  \/ parse_ty_fn
  \/ parse_ty_or_bang

Spec == Init /\ [][Next]_vars

\* ================================================================ claims
\* the value the running call hands back in this step
Returned == IF Len(stack) = 1 THEN result' ELSE ret'

\* the top-level decode of buffer d from offset 0 has ended
Ended(d) ==
  /\ data = d
  /\ status \in {"done", "fault"}
  /\ cursors[1].start = 0

\* the backreference keys whose targets are under decode, outermost first
UnderDecode ==
  SelectSeq(stack, LAMBDA f : f.fn = "parse_ty" /\ f.pc = "hash_ret")

\* C1 (as claimed): every cursor, the one parse_ty_data builds and the ones built
\* for backreference targets, keeps start <= position <= start+length <=
\* length(data).
C1_CursorInRange ==
  \A i \in 1..Len(cursors) :
    status # "fault" =>
    /\ cursors[i].start <= cursors[i].pos
    /\ cursors[i].pos <= cursors[i].start + cursors[i].len
    /\ cursors[i].start + cursors[i].len <= Len(data)

\* C2 (as claimed): the target of a backreference that is under decode is not
\* decoded again inside that decode, so a cyclic encoding is decoded in finitely
\* many steps and the decoder's stack is never exhausted.
C2_CyclicDecodeReturns ==
  /\ \A i, j \in 1..Len(UnderDecode) : i < j => UnderDecode[i].a # UnderDecode[j].a
  /\ err # "stack exhausted"

\* the running call is parse_ty about to dispatch on the byte c
Dispatch(c) == At("parse_ty", "entry") /\ InBuf(Cur.pos) /\ peek(Cur.pos) = c

\* the byte after the dispatch byte
SubTag == peek(Cur.pos + 1)

\* the running call is about to decode a well-formed backreference token of key
BackrefOf(key) ==
  /\ Dispatch("#")
  /\ LET pos == parse_hex(Cur.pos + 1)
         len == parse_hex(pos.pos + 1)
     IN  /\ pos.ok /\ peek(pos.pos) = ":"
         /\ len.ok /\ peek(len.pos) = "#"
         /\ key = <<Cur.crate, pos.val, len.val>>

\* the position just past the backreference token the cursor is on
TokenEnd == parse_hex(parse_hex(Cur.pos + 1).pos + 1).pos + 1

\* C3: once a backreference decode of a key has returned a handle, every later
\* decode of a backreference with that key, in the same parse_ty_data call or a
\* later one, returns that same handle in one step that only moves past the token: no cursor is made for the
\* referenced range, the resolver is not called, and no decode of a range whose
\* key has already returned is ever under way.
C3_BackrefIdempotent ==
  [][ /\ \A key \in DOMAIN completed :
           BackrefOf(key) =>
             /\ status' # "fault"
             /\ Returned = completed[key]
             /\ Len(cursors') = Len(cursors)
             /\ cursors'[Top.st].pos = TokenEnd
             /\ sdcalls' = sdcalls
             /\ Len(stack') = Len(stack) - 1
      /\ \A i \in 1..Len(UnderDecode) : UnderDecode[i].a \notin DOMAIN completed
    ]_vars

\* C3 witness: a second parse_ty_data call has ended on a cache hit for a key
\* the first call decoded.
C3_Witness ==
  /\ ncalls = 2
  /\ status = "done"
  /\ hits >= 1
  /\ \E key \in DOMAIN completed : result = completed[key]

\* C4: no step removes a key of the cache or changes the handle stored under it,
\* and rcache.insert runs only for a key that is absent.
C4_CacheOnlyGrows ==
  [][ /\ \A key \in DOMAIN rcache :
           key \in DOMAIN rcache' /\ rcache'[key] = rcache[key]
      /\ At("parse_ty", "hash_ret") => Top.a \notin DOMAIN rcache
    ]_vars

\* C4 witness: two keys have been inserted, one after the other.
C4_Witness ==
  /\ status = "done"
  /\ Cardinality(DOMAIN rcache) >= 2

\* a byte that is no type tag, sub-tag, kind, ABI or method convention where
\* the decoder dispatches on one
UnexpectedTag ==
  \/ /\ At("parse_ty", "entry") /\ InBuf(Cur.pos)
     /\ peek(Cur.pos) \notin
          {"n", "z", "b", "i", "u", "l", "M", "c", "s", "S", "t", "p", "@",
           "*", "V", "I", "a", "P", "C", "R", "F", "W", "B", "N", "O", "r",
           "X", "E", "Y", "#", "A"}
  \/ /\ Dispatch("M") /\ InBuf(Cur.pos + 1)
     /\ SubTag \notin {"b", "w", "l", "d", "B", "W", "L", "D", "f", "F"}
  \/ /\ Dispatch("p") /\ InBuf(Cur.pos + 1)
     /\ SubTag \notin {"u", "s", "p"}
  \/ /\ Dispatch("N") /\ InBuf(Cur.pos + 1)
     /\ SubTag \notin {"r", "i", "c", "l", "s"}
  \/ /\ Dispatch("O") /\ InBuf(Cur.pos + 2) /\ SubTag = "["
     /\ peek(Cur.pos + 2) \notin {"W", "F", "]"}
  \/ /\ At("parse_ty", "O_ret") /\ InBuf(Cur.pos)
     /\ peek(Cur.pos) \notin {"W", "F", "]"}

\* C5: a step that meets an unexpected tag byte ends the whole decode in a fault:
\* no frame survives, and a faulted decode has returned no type.
C5_UnexpectedTagIsFatal ==
  [][ /\ UnexpectedTag => status' = "fault" /\ stack' = <<>> /\ result' = NoVal
      /\ status = "fault" => result = NoVal /\ stack = <<>>
    ]_vars

\* C5 witness: a decode has aborted on an unexpected byte inside a nested
\* construct.
C5_Witness ==
  /\ status = "fault"
  /\ err = "unexpected char in type string"
  /\ cursors[1].pos > cursors[1].start + 1

\* the first argument of the first constraint of the list at p is followed by a
\* byte that neither separates arguments nor closes the list
BadArgDelimiter(p, pser) ==
  /\ InBuf(p) /\ peek(p) = ":"
  /\ LET pth == parse_path(p + 1)
         def == parse_def(pth.pos + 1)
         arg == arg_parser(pser, def.pos)
     IN  /\ pth.ok /\ def.ok /\ arg.ok
         /\ InBuf(arg.pos)
         /\ peek(arg.pos) \notin {")", ";"}

\* a byte that is not the delimiter the grammar requires at its place
MissingDelimiter ==
  \/ /\ \E tag \in {"t", "R", "O", "r", "A"} : Dispatch(tag)
     /\ InBuf(Cur.pos + 1) /\ SubTag # "["
  \/ At("parse_ty_fn", "entry") /\ InBuf(Cur.pos) /\ peek(Cur.pos) # "["
  \/ /\ Dispatch("#")
     /\ LET pos == parse_hex(Cur.pos + 1)
            len == parse_hex(pos.pos + 1)
        IN  /\ pos.ok
            /\ \/ peek(pos.pos) # ":"
               \/ len.ok /\ peek(len.pos) # "#"
  \/ /\ At("parse_ty", "A_ret")
     /\ LET tcs == parse_ty_constrs(Cur.pos)
        IN  tcs.ok /\ InBuf(tcs.pos) /\ peek(tcs.pos) # "]"
  \/ At("parse_ty", "A_ret") /\ BadArgDelimiter(Cur.pos, "parse_ty_constr_arg")
  \/ /\ At("parse_ty_fn", "entry") /\ InBuf(Cur.pos + 1)
     /\ peek(Cur.pos) = "[" /\ peek(Cur.pos + 1) = "]"
     /\ BadArgDelimiter(Cur.pos + 2, "parse_constr_arg")
  \/ /\ At("parse_ty_fn", "arg_ret") /\ InBuf(Cur.pos) /\ peek(Cur.pos) = "]"
     /\ BadArgDelimiter(Cur.pos + 1, "parse_constr_arg")

ty_int == [mk |-> "int"]

ty_bool == [mk |-> "bool"]

ty_nil == [mk |-> "nil"]

ty_bot == [mk |-> "bot"]

RecordXY ==
  [mk |-> "rec",
   fields |-> << [ident |-> <<"x">>, mt |-> [ty |-> ty_int, mut |-> "imm"]],
                 [ident |-> <<"y">>, mt |-> [ty |-> ty_bool, mut |-> "maybe_mut"]] >>]

\* C7 (as claimed): "R[x=i;y=?b;]" decodes to the record {x: int, y: ?bool} with
\* the cursor just past the closing ']'.
C7_RecordWithSemicolons ==
  Ended(<<"R", "[", "x", "=", "i", ";", "y", "=", "?", "b", ";", "]">>) =>
    status = "done" /\ result = RecordXY /\ cursors[1].pos = 12

\* C7 (amended): fields are written name '=' type with nothing between them:
\* "R[x=iy=?b]" decodes to a record of exactly the fields x: int (immutable) and
\* y: bool (maybe-mutable), in this order, with the cursor just past the ']'.
C7_RecordXY ==
  Ended(<<"R", "[", "x", "=", "i", "y", "=", "?", "b", "]">>) =>
    status = "done" /\ result = RecordXY /\ cursors[1].pos = 10

C7_Witness == Ended(<<"R", "[", "x", "=", "i", "y", "=", "?", "b", "]">>) /\ status = "done"

PathOf(idents) == [global |-> FALSE, idents |-> idents, types |-> <<>>]

\* C8 (as claimed): in "A[i:p(d|q)]" the constraint p carries the nested-path
\* argument q and the constrained type decodes.
C8_NestedPathArgument ==
  Ended(<<"A", "[", "i", ":", "p", "(", "d", "|", "q", ")", "]">>) =>
    /\ status = "done"
    /\ result = [mk |-> "constr", ty |-> ty_int,
                 tcs |-> << [path |-> PathOf(<< <<"p">> >>),
                             args |-> << [carg |-> "ident", of |-> PathOf(<< <<"q">> >>)] >>,
                             id |-> sd(<<"d">>)] >>]

\* the canonical handle the claim names for a primitive encoding
C9_Canonical(tag, sub) ==
  CASE tag = "n" -> ty_nil
    [] tag = "z" -> ty_bot
    [] tag = "b" -> ty_bool
    [] tag = "i" -> ty_int
    [] tag = "u" -> [mk |-> "uint"]
    [] tag = "l" -> [mk |-> "float"]
    [] tag = "c" -> [mk |-> "char"]
    [] tag = "s" -> [mk |-> "str"]
    [] tag = "S" -> [mk |-> "istr"]
    [] tag = "a" -> [mk |-> "task"]
    [] tag = "Y" -> [mk |-> "type"]
    [] tag = "M" /\ sub = "b" -> [mk |-> "mach", tm |-> "ty_u8"]
    [] tag = "M" /\ sub = "w" -> [mk |-> "mach", tm |-> "ty_u16"]
    [] tag = "M" /\ sub = "l" -> [mk |-> "mach", tm |-> "ty_u32"]
    [] tag = "M" /\ sub = "d" -> [mk |-> "mach", tm |-> "ty_u64"]
    [] tag = "M" /\ sub = "B" -> [mk |-> "mach", tm |-> "ty_i8"]
    [] tag = "M" /\ sub = "W" -> [mk |-> "mach", tm |-> "ty_i16"]
    [] tag = "M" /\ sub = "L" -> [mk |-> "mach", tm |-> "ty_i32"]
    [] tag = "M" /\ sub = "D" -> [mk |-> "mach", tm |-> "ty_i64"]
    [] tag = "M" /\ sub = "f" -> [mk |-> "mach", tm |-> "ty_f32"]
    [] tag = "M" /\ sub = "F" -> [mk |-> "mach", tm |-> "ty_f64"]

\* C9: parse_ty on a primitive encoding returns the canonical handle of its tag
\* in one step, moves the cursor past the one tag byte (two after 'M'), calls no
\* resolver and leaves the cache as it was.
C9_Primitives ==
  [][ /\ \A tag \in {"n", "z", "b", "i", "u", "l", "c", "s", "S", "a", "Y"} :
           Dispatch(tag) =>
             /\ status' # "fault"
             /\ Returned = C9_Canonical(tag, "")
             /\ Len(stack') = Len(stack) - 1
             /\ cursors'[Top.st].pos = Cur.pos + 1
             /\ sdcalls' = sdcalls
             /\ rcache' = rcache
      /\ \A sub \in {"b", "w", "l", "d", "B", "W", "L", "D", "f", "F"} :
           Dispatch("M") /\ InBuf(Cur.pos + 1) /\ SubTag = sub =>
             /\ status' # "fault"
             /\ Returned = C9_Canonical("M", sub)
             /\ Len(stack') = Len(stack) - 1
             /\ cursors'[Top.st].pos = Cur.pos + 2
             /\ sdcalls' = sdcalls
             /\ rcache' = rcache
    ]_vars

\* C9 witness: a machine type was decoded a second time on the same context.
C9_Witness ==
  /\ data = <<"M", "B">>
  /\ ncalls = 2
  /\ status = "done"
  /\ result = [mk |-> "mach", tm |-> "ty_i8"]
  /\ cursors[1].pos = 2

ByValue(t) == [mode |-> [mode |-> "mo_val"], ty |-> t]

Alias(m, t) == [mode |-> [mode |-> "mo_alias", mut |-> m], ty |-> t]

FnOf(proto, args, t, cf, cs) ==
  [mk |-> "fn", proto |-> proto, args |-> args, ty |-> t, cf |-> cf, cs |-> cs]

\* C10: a signature's arguments come in encoded order, by value unless prefixed
\* by '&' (alias) or '&m' (mutable alias); without ':' after ']' there are no
\* constraints; '!' gives never-returns with the bottom type, anything else
\* returns normally with the decoded type.  "F[i]n" is the plain function of
\* one by-value int returning nil.
C10_FunctionSignature ==
  /\ Ended(<<"F", "[", "i", "]", "n">>) =>
       status = "done"
       /\ result = FnOf("proto_fn", <<ByValue(ty_int)>>, ty_nil, "return", <<>>)
  /\ Ended(<<"F", "[", "&", "i", "&", "m", "b", "i", "]", "!">>) =>
       status = "done"
       /\ result = FnOf("proto_fn",
                        <<Alias(FALSE, ty_int), Alias(TRUE, ty_bool), ByValue(ty_int)>>,
                        ty_bot, "noreturn", <<>>)
  /\ Ended(<<"W", "[", "]", "i">>) =>
       status = "done"
       /\ result = FnOf("proto_iter", <<>>, ty_int, "return", <<>>)
  /\ Ended(<<"F", "[", "i", "]", ":", "p", "(", "d", "|", "0", ";", "*", ")", "n">>) =>
       status = "done"
       /\ result = FnOf("proto_fn", <<ByValue(ty_int)>>, ty_nil, "return",
                        << [path |-> PathOf(<< <<"p">> >>),
                            args |-> << [carg |-> "ident", of |-> 0],
                                        [carg |-> "base"] >>,
                            id |-> sd(<<"d">>)] >>)
  /\ Ended(<<"B", "[", "]", ":", "p", "(", "d", "|", "0", ")", ";", "q", "(", "e", "|", "*", ")", "b">>) =>
       status = "done"
       /\ result.proto = "proto_block" /\ result.args = <<>>
       /\ result.ty = ty_bool /\ result.cf = "return"
       /\ Len(result.cs) = 2

C10_Witness ==
  /\ Ended(<<"F", "[", "&", "i", "&", "m", "b", "i", "]", "!">>)
  /\ status = "done"
  /\ result.cf = "noreturn"

\* the mutability a qualifier byte stands for
MutabilityOf(c) ==
  IF c = "m" THEN "mut" ELSE IF c = "?" THEN "maybe_mut" ELSE "imm"

\* C11: parse_mt looks at one byte: 'm' is consumed and gives mutable, '?' is
\* consumed and gives ambiguous, any other byte stays and gives immutable; it
\* then has parse_ty decode exactly one type and returns that type with the
\* mutability, moving the cursor no further.  "@mi" is a box of mutable int,
\* "V?b" a vector of ambiguous bool, "*i" and "Ii" hold an immutable int.
C11_MutabilityQualifier ==
  /\ [](/\ Ended(<<"@", "m", "i">>) =>
             status = "done" /\ result = [mk |-> "box", mt |-> [ty |-> ty_int, mut |-> "mut"]]
        /\ Ended(<<"V", "?", "b">>) =>
             status = "done"
             /\ result = [mk |-> "vec", mt |-> [ty |-> ty_bool, mut |-> "maybe_mut"]]
        /\ Ended(<<"*", "i">>) =>
             status = "done" /\ result = [mk |-> "ptr", mt |-> [ty |-> ty_int, mut |-> "imm"]]
        /\ Ended(<<"I", "i">>) =>
             status = "done" /\ result = [mk |-> "ivec", mt |-> [ty |-> ty_int, mut |-> "imm"]])
  /\ [][ /\ At("parse_mt", "entry") /\ InBuf(Cur.pos) =>
              /\ status' = "running"
              /\ Len(stack') = Len(stack) + 1
              /\ stack'[Len(stack')].fn = "parse_ty"
              /\ stack'[Len(stack')].pc = "entry"
              /\ stack'[Len(stack)].a = MutabilityOf(peek(Cur.pos))
              /\ cursors'[Top.st].pos =
                   Cur.pos + (IF peek(Cur.pos) \in {"m", "?"} THEN 1 ELSE 0)
         /\ At("parse_mt", "mt_ret") =>
              /\ Returned = [ty |-> ret, mut |-> Top.a]
              /\ cursors' = cursors
       ]_vars

\* C11 witness: a vector of ambiguous-mutability bool has been decoded.
C11_Witness ==
  /\ Ended(<<"V", "?", "b">>)
  /\ status = "done"
  /\ result.mt.mut = "maybe_mut"

\* C12 (as claimed): a constraint path with no segment ("F[]:(d|*)n") and one
\* with a single ':' ("F[]:a:b(d|*)n") end the decode in a fault, and the path
\* a::b::c decodes to the segments a, b, c.
C12_MalformedPathRejected ==
  /\ Ended(<<"F", "[", "]", ":", "(", "d", "|", "*", ")", "n">>) => status = "fault"
  /\ Ended(<<"F", "[", "]", ":", "a", ":", "b", "(", "d", "|", "*", ")", "n">>) => status = "fault"
  /\ Ended(<<"F", "[", "]", ":", "a", ":", ":", "b", ":", ":", "c", "(", "d", "|", "*", ")", "n">>) =>
       /\ status = "done"
       /\ result.cs[1].path = PathOf(<< <<"a">>, <<"b">>, <<"c">> >>)

\* C13 (as claimed): a number that runs to the end of the buffer is returned
\* without a fault: "X12" is the inference variable 12 and "pu3" the unique
\* type parameter 3.
C13_NumberAtEndOfInput ==
  /\ Ended(<<"X", "1", "2">>) =>
       status = "done" /\ result = [mk |-> "var", n |-> 12]
  /\ Ended(<<"p", "u", "3">>) =>
       status = "done" /\ result = [mk |-> "param", n |-> 3, k |-> "kind_unique"]

DigitBytes == {"0", "1", "2", "3", "4", "5", "6", "7", "8", "9"}

HexBytes == DigitBytes \cup {"a", "b", "c", "d", "e", "f"}

\* the step of a backreference whose token decodes to key: a hit returns the
\* cached handle, a miss starts the nested decode at the key's offset
BackrefStep(key) ==
  IF key \in DOMAIN rcache
  THEN status' # "fault" /\ Returned = rcache[key]
  ELSE IF Len(cursors) >= MaxDepth
       THEN status' = "fault"
       ELSE /\ status' = "running"
            /\ stack'[Len(stack)].a = key
            /\ cursors'[Len(cursors')].pos = key[2]
            /\ cursors'[Len(cursors')].len = key[3]

\* C14: where a number is expected and the next byte is no digit (for parse_hex:
\* no digit and no lower-case a-f, so also an upper-case A-F), the number is 0,
\* the byte is left for whoever reads next and the numeric parser raises no
\* fault: 'X' and 'p' give variable 0 and parameter 0 with the cursor still on
\* that byte; in a backreference the byte is what the following assertion
\* reads, and an empty offset or length enters the key as 0.
C14_EmptyNumberIsZero ==
  [][ /\ Dispatch("X") /\ InBuf(Cur.pos + 1) /\ SubTag \notin DigitBytes =>
           /\ status' # "fault"
           /\ Returned = [mk |-> "var", n |-> 0]
           /\ cursors'[Top.st].pos = Cur.pos + 1
      /\ \A k \in {"u", "s", "p"} :
           /\ Dispatch("p") /\ InBuf(Cur.pos + 2) /\ SubTag = k
           /\ peek(Cur.pos + 2) \notin DigitBytes
           => /\ status' # "fault"
              /\ Returned.mk = "param" /\ Returned.n = 0
              /\ cursors'[Top.st].pos = Cur.pos + 2
      /\ Dispatch("#") /\ InBuf(Cur.pos + 1) /\ SubTag \notin HexBytes =>
           IF SubTag # ":"
           THEN /\ status' = "fault" /\ err' = "assert"
                /\ cursors'[Top.st].pos = Cur.pos + 2
           ELSE LET len == parse_hex(Cur.pos + 2)
                IN  len.ok /\ peek(len.pos) = "#" =>
                      BackrefStep(<<Cur.crate, 0, len.val>>)
      /\ Dispatch("#") =>
           LET pos == parse_hex(Cur.pos + 1)
           IN  /\ pos.ok /\ peek(pos.pos) = ":"
               /\ InBuf(pos.pos + 1) /\ peek(pos.pos + 1) \notin HexBytes
               => IF peek(pos.pos + 1) # "#"
                  THEN /\ status' = "fault" /\ err' = "assert"
                       /\ cursors'[Top.st].pos = pos.pos + 2
                  ELSE BackrefStep(<<Cur.crate, pos.val, 0>>)
    ]_vars

\* C14 witness: "#:1#" was decoded as a backreference to offset 0: the decode
\* returned the int found there and the key with offset 0 is in the cache.
C14_Witness ==
  /\ data = <<"i", "#", ":", "1", "#">>
  /\ status = "done"
  /\ result = ty_int
  /\ \E c \in Crates : <<c, 0, 1>> \in DOMAIN rcache

\* C15 (as claimed): after 'N' and the ABI tag nothing is consumed between ']'
\* and the return position: "Nc[i]n" is the cdecl native function of one int
\* returning nil, and in "Nc[i]:p(d|0)n" the ':' stands at the return position,
\* where it is no type tag, so the decode faults.
C15_NativeFnNoConstraints ==
  /\ Ended(<<"N", "c", "[", "i", "]", "n">>) =>
       /\ status = "done"
       /\ result = [mk |-> "native_fn", abi |-> "native_abi_cdecl",
                    args |-> <<ByValue(ty_int)>>, ty |-> ty_nil]
  /\ Ended(<<"N", "c", "[", "i", "]", ":", "p", "(", "d", "|", "0", ")", "n">>) =>
       status = "fault"

\* the cursor is on a well-formed backreference token
OnBackref ==
  /\ Dispatch("#")
  /\ LET pos == parse_hex(Cur.pos + 1)
         len == parse_hex(pos.pos + 1)
     IN  /\ pos.ok /\ peek(pos.pos) = ":"
         /\ len.ok /\ peek(len.pos) = "#"

BackrefKey ==
  LET pos == parse_hex(Cur.pos + 1)
  IN  <<Cur.crate, pos.val, parse_hex(pos.pos + 1).val>>

\* C16: the step on a backreference token moves the current cursor exactly to
\* the byte after the closing '#', on a hit and on a miss.  A hit changes no
\* other cursor and calls no resolver.  A miss adds one cursor over the same
\* buffer and unit at the referenced offset and length, on which one parse_ty
\* runs; no step of that nested decode changes the cursor of a frame waiting
\* for it, and when it returns the nested cursor is dropped, the waiting
\* cursor is where the token ended and the nested result is returned.
C16_BackrefFrameEffect ==
  [][ /\ OnBackref =>
           /\ cursors'[Top.st] = [Cur EXCEPT !.pos = TokenEnd]
           /\ data' = data
           /\ IF BackrefKey \in DOMAIN rcache
              THEN /\ status' # "fault"
                   /\ cursors' = [cursors EXCEPT ![Top.st].pos = TokenEnd]
                   /\ sdcalls' = sdcalls
                   /\ Returned = rcache[BackrefKey]
              ELSE Len(cursors) < MaxDepth =>
                   /\ status' = "running"
                   /\ cursors' = Append([cursors EXCEPT ![Top.st].pos = TokenEnd],
                                        [crate |-> Cur.crate, pos |-> BackrefKey[2],
                                         len |-> BackrefKey[3], start |-> BackrefKey[2]])
                   /\ stack'[Len(stack')].fn = "parse_ty"
                   /\ stack'[Len(stack')].pc = "entry"
                   /\ stack'[Len(stack')].st = Len(cursors')
      /\ \A i \in 1..Len(stack) :
           stack[i].pc = "hash_ret" => cursors'[stack[i].st] = cursors[stack[i].st]
      /\ At("parse_ty", "hash_ret") =>
           /\ cursors' = SubSeq(cursors, 1, Len(cursors) - 1)
           /\ Returned = ret
    ]_vars

\* C16 witness: "#0:1#" at offset 1 missed, its target was decoded through a
\* nested cursor, and the decode ended with the cursor after the closing '#'.
C16_Witness ==
  /\ data = <<"i", "#", "0", ":", "1", "#">>
  /\ status = "done"
  /\ hits = 0
  /\ cursors = <<[crate |-> 0, pos |-> 6, len |-> 5, start |-> 1]>>
  /\ <<0, 0, 1>> \in DOMAIN rcache

\* C17: only the return of a completed nested decode changes the cache, and it
\* adds exactly that decode's key with the type it returned; a step that
\* faults changes nothing, so after a fault the cache holds what it held
\* before the call and the entries of the nested decodes that had returned
\* by then.  No entry is ever without a type, and no key whose nested decode
\* was under way when the fault came is in the cache: a lookup of it misses.
C17_FaultLeavesNoFailedEntry ==
  /\ [](\A key \in DOMAIN rcache : rcache[key] # NoVal)
  /\ [][ /\ ~At("parse_ty", "hash_ret") => rcache' = rcache
         /\ At("parse_ty", "hash_ret") =>
              /\ status' # "fault"
              /\ ret # NoVal
              /\ DOMAIN rcache' = DOMAIN rcache \cup {Top.a}
              /\ rcache'[Top.a] = ret
              /\ \A key \in DOMAIN rcache : rcache'[key] = rcache[key]
         /\ status' = "fault" =>
              /\ rcache' = rcache
              /\ \A i \in 1..Len(UnderDecode) : UnderDecode[i].a \notin DOMAIN rcache'
       ]_vars

\* C17 witness: the first decode on the context faulted on the 'Q' of
\* "t[d|#b:1#Q]i" after the nested decode of #b:1# had returned: its entry, and
\* nothing else, is in the cache.
C17_Witness ==
  /\ data = <<"t", "[", "d", "|", "#", "b", ":", "1", "#", "Q", "]", "i">>
  /\ ncalls = 1
  /\ status = "fault"
  /\ err = "unexpected char in type string"
  /\ DOMAIN rcache = {<<0, 11, 1>>}
  /\ rcache[<<0, 11, 1>>] = ty_int

====
